---- MODULE Spec2Model ----
(***************************************************************************)
(* safesocket on Plan 9: a listener posts one end of a pipe under a name   *)
(* in /srv and keeps the other end; a client opens the name and writes the *)
(* token "Hello"; Accept scans its end of the pipe for the token and hands *)
(* out a Conn that shares the listener's file.                             *)
(*                                                                         *)
(* The model follows src/safesocket/safesocket_plan9.go statement by       *)
(* statement.  The operating system and the os.File layer under it are     *)
(* modelled by what the code asks of them:                                 *)
(*   - pipe(2)/pipe(3): two queues of written blocks; a read returns at    *)
(*     most one write's bytes and at most len(buf) bytes, the rest of the  *)
(*     block stays at the head; a read with nothing queued blocks while    *)
(*     the far end is open and returns 0 bytes once it is closed;          *)
(*   - srv(3): a created name holds no channel until a descriptor number   *)
(*     is written to it, then every open of the name yields that channel;  *)
(*     a name created with ORCLOSE is removed when the descriptor it was   *)
(*     created through is closed;                                          *)
(*   - os.File: Read/Write/Close on a closed File fail with ErrClosed, a   *)
(*     0-byte read is io.EOF, a write of fewer bytes than asked carries a  *)
(*     non-nil error, and Close does not interrupt a Read already blocked  *)
(*     in the kernel: the descriptor is released when that Read returns;   *)
(*     a File that nothing refers to any more is closed by its finalizer,  *)
(*     at some time or never.                                              *)
(***************************************************************************)
EXTENDS Integers, Sequences, FiniteSets, TLC

\* ---- bounds of the model ------------------------------------------------
MaxListens == 2   \* calls of listen() on the path (each makes its own pipe)
MaxClients == 2   \* calls of connect() on the path
MaxWrites  == 1   \* Conn.Write calls that carry data, both directions together
MaxAccepts == 2   \* calls of Accept(), all listeners together
MaxCalls   == 4   \* calls of listen(), connect() and Accept() together

Listeners == 1..MaxListens
Clients   == 1..MaxClients

\* ---- bytes --------------------------------------------------------------
Hello == <<"H", "e", "l", "l", "o">>
HelloLen == Len(Hello)

\* What a client writes on its Conn after the handshake: a request, and the
\* token with a byte of noise in front of it in the same write.
ClientMsgs == { <<"P", "I", "N", "G">>, <<"x">> \o Hello }
\* What the server writes on its Conn.
ServerMsgs == { <<"P", "O", "N", "G">> }
\* The caller's buffer in Conn.Read.
ReadBufLens == {4}
\* Bytes a failing handshake write may have put into the pipe.
ShortCounts == {2}

\* A byte of a fresh buffer that no read has filled.
Nul == "nul"

Min(a, b) == IF a < b THEN a ELSE b

VARIABLES
    srv,     \* the /srv entry of the path: st, and the listener whose pipe it holds
    lst,     \* per listen() call: position in createSrv, descriptors, the os.File,
             \* the Accept in progress and what the calls on it returned
    cl,      \* per connect() call: position in connect (hw: handshake writes
             \* issued, wn: the count the write reported), descriptor, the os.File
    q0,      \* per pipe: blocks written at the client end, read at the server end
    q1,      \* per pipe: blocks written at the server end, read at the client end
    nwrites, \* Conn.Write calls that carried data so far
    naccepts,\* Accept calls so far
    io       \* the last call, if it was one that changed nothing: what it returned

vars == <<srv, lst, cl, q0, q1, nwrites, naccepts, io>>

NoIO == [op |-> "none", side |-> "none", id |-> 0, r |-> "none"]
Ret(op, side, id, r) == [op |-> op, side |-> side, id |-> id, r |-> r]

\* ---- the pipe -------------------------------------------------------------
\* read(fd, buf) with len(buf) = n on a queue of written blocks: at most one
\* block, at most n bytes; what is left of the block stays at the head.
PipeReadData(q, n) == SubSeq(Head(q), 1, Min(n, Len(Head(q))))
PipeReadRest(q, n) ==
    IF n >= Len(Head(q)) THEN Tail(q)
    ELSE <<SubSeq(Head(q), n + 1, Len(Head(q)))>> \o Tail(q)

\* References to the client end of pipe i: the descriptor pip[1] in the
\* listening process, the channel held by the /srv entry, and every
\* descriptor a client got by opening the name.
End1RefsIn(s, l, k, i) ==
    (IF l[i].fd1 THEN 1 ELSE 0)
    + (IF s.st = "posted" /\ s.owner = i THEN 1 ELSE 0)
    + Cardinality({c \in Clients : k[c].fd /\ k[c].pipe = i})
End1Open(i) == End1RefsIn(srv, lst, cl, i) > 0
\* The server end has one descriptor, pip[0].
End0Open(i) == lst[i].fd0

\* Closing the last reference to an end drops what was queued for it to read
\* (pipeclose): nq0, nq1 are the queues before that.
Queues(nq0, nq1) ==
    /\ q0' = [i \in Listeners |-> IF lst'[i].fd0 THEN nq0[i] ELSE <<>>]
    /\ q1' = [i \in Listeners |->
                IF End1RefsIn(srv', lst', cl', i) > 0 THEN nq1[i] ELSE <<>>]

\* Calls are numbered in the order they start, and counted.
NumCalls ==
    Cardinality({i \in Listeners : lst[i].pc # "idle"})
    + Cardinality({c \in Clients : cl[c].pc # "idle"})
    + naccepts
InOrderL(i) == NumCalls < MaxCalls /\ \A j \in Listeners : j < i => lst[j].pc # "idle"
InOrderC(c) == NumCalls < MaxCalls /\ \A d \in Clients : d < c => cl[d].pc # "idle"

Init ==
    /\ srv = [st |-> "absent", owner |-> 0]
    /\ lst = [i \in Listeners |->
                [pc |-> "idle", res |-> "none", fd0 |-> FALSE, fd1 |-> FALSE,
                 srvfd |-> FALSE, closed |-> FALSE,
                 acc |-> "none", ares |-> "none", hasconn |-> FALSE,
                 ssent |-> <<>>, sgot |-> <<>>]]
    /\ cl = [c \in Clients |->
                [pc |-> "idle", res |-> "none", pipe |-> 0, fd |-> FALSE,
                 hw |-> 0, wn |-> 0, closed |-> FALSE,
                 sent |-> <<>>, got |-> <<>>]]
    /\ q0 = [i \in Listeners |-> <<>>]
    /\ q1 = [i \in Listeners |-> <<>>]
    /\ nwrites = 0
    /\ naccepts = 0
    /\ io = NoIO

\* ---- listen / createSrv ---------------------------------------------------
\* plan9.Pipe failed: createSrv and listen return the error, nothing is open.
CreateSrvPipeFail(i) ==
    /\ lst[i].pc = "idle"
    /\ InOrderL(i)
    /\ lst' = [lst EXCEPT ![i].pc = "failed", ![i].res = "IOError"]
    /\ io' = NoIO
    /\ UNCHANGED <<srv, cl, q0, q1, nwrites, naccepts>>

\* plan9.Pipe(pip[:]) succeeded, defer plan9.Close(pip[1]), and
\* plan9.Create(path, O_WRONLY|O_CLOEXEC|O_RCLOSE) on a free name: the entry
\* exists and holds no channel yet; defer srv.Close().  (The new pipe is
\* known to no one else, so the two calls are taken as one step.)
CreateSrvCreate(i) ==
    /\ lst[i].pc = "idle"
    /\ InOrderL(i)
    /\ srv.st = "absent"
    /\ srv' = [st |-> "created", owner |-> i]
    /\ lst' = [lst EXCEPT ![i].pc = "created", ![i].fd0 = TRUE, ![i].fd1 = TRUE,
                          ![i].srvfd = TRUE]
    /\ io' = NoIO
    /\ UNCHANGED <<cl, q0, q1, nwrites, naccepts>>

\* plan9.Pipe succeeded and plan9.Create found the name taken: createSrv
\* returns the error; the deferred plan9.Close(pip[1]) runs, pip[0] is not
\* closed by any statement.
CreateSrvCreateFail(i) ==
    /\ lst[i].pc = "idle"
    /\ InOrderL(i)
    /\ srv.st # "absent"
    /\ lst' = [lst EXCEPT ![i].pc = "failed", ![i].res = "PathInUse",
                          ![i].fd0 = TRUE]
    /\ io' = NoIO
    /\ UNCHANGED <<srv, cl, q0, q1, nwrites, naccepts>>

\* fmt.Fprintf(srv, "%d", pip[1]) succeeded: the entry now holds the client
\* end of the pipe and opens of the name succeed.
CreateSrvPost(i) ==
    /\ lst[i].pc = "created"
    /\ srv' = [st |-> "posted", owner |-> i]
    /\ lst' = [lst EXCEPT ![i].pc = "posted"]
    /\ io' = NoIO
    /\ UNCHANGED <<cl, q0, q1, nwrites, naccepts>>

\* What the deferred srv.Close() leaves of the /srv entry: the descriptor was
\* created with O_RCLOSE, so closing it removes the name and drops the
\* channel the entry held.
SrvAfterClose(s) == [st |-> "absent", owner |-> 0]

\* fmt.Fprintf failed: createSrv returns the error; the deferred srv.Close()
\* removes the name and the deferred plan9.Close(pip[1]) runs.
CreateSrvPostFail(i) ==
    /\ lst[i].pc = "created"
    /\ srv' = SrvAfterClose(srv)
    /\ lst' = [lst EXCEPT ![i].pc = "failed", ![i].res = "IOError",
                          ![i].srvfd = FALSE, ![i].fd1 = FALSE]
    /\ io' = NoIO
    /\ UNCHANGED <<cl, q0, q1, nwrites, naccepts>>

\* return os.NewFile(pip[0]) with the two defers, srv.Close() and
\* plan9.Close(pip[1]); then listen returns the Listener.  If no client holds
\* the client end once the entry and pip[1] are gone, that end is closed.
CreateSrvReturn(i) ==
    /\ lst[i].pc = "posted"
    /\ srv' = SrvAfterClose(srv)
    /\ lst' = [lst EXCEPT ![i].pc = "live", ![i].res = "ok",
                          ![i].srvfd = FALSE, ![i].fd1 = FALSE]
    /\ io' = NoIO
    /\ UNCHANGED <<cl, nwrites, naccepts>>
    /\ Queues(q0, q1)

\* ---- connect --------------------------------------------------------------
\* An open that reports every failure as the same generic error.
OpenResultGeneric(s) == IF s.st = "posted" THEN "nil" ELSE "IOError"

\* os.OpenFile(s.path, O_RDWR): the name must exist and hold a channel.
OpenResult(s) ==
    IF s.st = "posted" THEN "nil"
    ELSE IF s.st = "created" THEN "IOError"
    ELSE "NotFound"

ConnectOpen(c) ==
    /\ cl[c].pc = "idle"
    /\ InOrderC(c)
    /\ cl' = IF OpenResult(srv) = "nil"
             THEN [cl EXCEPT ![c].pc = "opened", ![c].pipe = srv.owner, ![c].fd = TRUE]
             ELSE [cl EXCEPT ![c].pc = "failed", ![c].res = OpenResult(srv)]
    /\ io' = NoIO
    /\ UNCHANGED <<srv, lst, q0, q1, nwrites, naccepts>>

\* What f.Write([]byte("Hello")) can report: all 5 bytes and no error, or
\* fewer with an error (os.File.Write never reports a short count without one).
WriteOutcomes(i) ==
    IF End0Open(i)
    THEN {[n |-> HelloLen, err |-> "nil"]}
         \cup {[n |-> k, err |-> "ErrShortWrite"] : k \in ShortCounts}
    ELSE {[n |-> 0, err |-> "EPIPE"]}

\* connect's result from what the write reported.
ConnectResult(n, err) ==
    IF err # "nil" THEN err
    ELSE IF n # HelloLen THEN "BadHandshake"
    ELSE "ok"

\* The single f.Write of the token and connect's return.  On the error
\* returns f is not closed: the descriptor stays open.
ConnectWrite(c) ==
    /\ cl[c].pc = "opened"
    /\ \E w \in WriteOutcomes(cl[c].pipe) :
         /\ cl' = [cl EXCEPT ![c].pc = IF ConnectResult(w.n, w.err) = "ok"
                                       THEN "conn" ELSE "failed",
                             ![c].res = ConnectResult(w.n, w.err),
                             ![c].hw = @ + 1,
                             ![c].wn = w.n]
         /\ io' = NoIO
         /\ UNCHANGED <<srv, lst, nwrites, naccepts>>
         /\ Queues(IF w.n > 0
                   THEN [q0 EXCEPT ![cl[c].pipe] = Append(@, SubSeq(Hello, 1, w.n))]
                   ELSE q0, q1)

\* After an error return of connect nothing refers to f any more: the
\* descriptor stays open until the garbage collector runs the File's
\* finalizer, if it ever does.
ConnectFileFinalize(c) ==
    /\ cl[c].pc = "failed"
    /\ cl[c].fd
    /\ cl' = [cl EXCEPT ![c].fd = FALSE]
    /\ io' = NoIO
    /\ UNCHANGED <<srv, lst, nwrites, naccepts>>
    /\ Queues(q0, q1)

\* ---- plan9SrvListener.Accept ---------------------------------------------
\* Accept is called and issues its first sl.file.Read: on a closed File the
\* Read fails at once and Accept returns that error; otherwise the Read is in
\* the kernel until the pipe has something for it.
AcceptCall(i) ==
    /\ lst[i].pc = "live"
    /\ lst[i].acc = "none"
    /\ naccepts < MaxAccepts
    /\ NumCalls < MaxCalls
    /\ naccepts' = naccepts + 1
    /\ lst' = IF lst[i].closed
              THEN [lst EXCEPT ![i].ares = "ErrClosed"]
              ELSE [lst EXCEPT ![i].ares = "none", ![i].acc = "reading"]
    /\ io' = NoIO
    /\ UNCHANGED <<srv, cl, q0, q1, nwrites>>

\* A buffer one byte too long, as make([]byte, len("Hello")+1) would give.
HelloBufOffByOne(data) == data \o [k \in 1..(HelloLen + 1 - Len(data)) |-> Nul]

\* hello := make([]byte, len("Hello")) after a Read that delivered data: the
\* bytes the Read did not fill are still zero.  The buffer is local to one
\* turn of the loop.
HelloBuf(data) == data \o [k \in 1..(HelloLen - Len(data)) |-> Nul]

\* A comparison that stops at the bytes the Read filled, as
\* strings.HasPrefix("Hello", string(hello[:n])) would.
HelloMatchesFilled(hello) ==
    \A k \in 1..HelloLen : hello[k] = Nul \/ hello[k] = Hello[k]

\* string(hello) == "Hello"
HelloMatches(hello) == hello = Hello

\* The pending Read returns data: Accept returns a Conn on a match; otherwise
\* it loops and reads again, which fails at once if the File was closed
\* meanwhile.  A File closed during the Read releases its descriptor now.
AcceptReadData(i) ==
    /\ lst[i].acc = "reading"
    /\ q0[i] # <<>>
    /\ LET hello == HelloBuf(PipeReadData(q0[i], HelloLen))
           match == HelloMatches(hello)
       IN /\ lst' = [lst EXCEPT
                ![i].acc = IF match \/ lst[i].closed THEN "none" ELSE "reading",
                ![i].ares = IF match THEN "conn"
                            ELSE IF lst[i].closed THEN "ErrClosed" ELSE "none",
                ![i].hasconn = match \/ @,
                ![i].fd0 = IF lst[i].closed THEN FALSE ELSE @]
          /\ io' = NoIO
          /\ UNCHANGED <<srv, cl, nwrites, naccepts>>
          /\ Queues([q0 EXCEPT ![i] = PipeReadRest(q0[i], HelloLen)], q1)

\* An Accept that drops the error of its Read and hands out a Conn anyway.
AcceptReadEOFIgnored(i) ==
    /\ lst[i].acc = "reading"
    /\ q0[i] = <<>>
    /\ ~End1Open(i)
    /\ lst' = [lst EXCEPT ![i].acc = "none", ![i].ares = "conn",
                          ![i].hasconn = TRUE]
    /\ io' = NoIO
    /\ UNCHANGED <<srv, cl, q0, q1, nwrites, naccepts>>

\* The pending Read returns 0 bytes because the client end is closed:
\* os.File.Read reports io.EOF and Accept returns it.
AcceptReadEOF(i) ==
    /\ lst[i].acc = "reading"
    /\ q0[i] = <<>>
    /\ ~End1Open(i)
    /\ lst' = [lst EXCEPT ![i].acc = "none",
                          ![i].ares = "EOF",
                          ![i].fd0 = IF lst[i].closed THEN FALSE ELSE @]
    /\ io' = NoIO
    /\ UNCHANGED <<srv, cl, nwrites, naccepts>>
    /\ Queues(q0, q1)

\* ---- os.File.Close on the listener's file ----------------------------------
\* plan9SrvListener.Close and the Close of a Conn that Accept returned are the
\* same call on the same *os.File.  A second Close fails with ErrClosed.  The
\* descriptor pip[0] is released at once unless a Read is still in the kernel.
\* A Close that reports success whatever the state of the File.
FileCloseResultNil(closed) == "nil"

FileCloseResult(closed) == IF closed THEN "ErrClosed" ELSE "nil"

ServerFileClose(i) ==
    IF lst[i].closed
    THEN /\ io' = Ret("Close", "server", i, FileCloseResult(TRUE))
         /\ UNCHANGED <<srv, lst, cl, q0, q1, nwrites, naccepts>>
    ELSE /\ lst' = [lst EXCEPT ![i].closed = TRUE,
                               ![i].fd0 = IF lst[i].acc = "reading" THEN @ ELSE FALSE]
         /\ io' = NoIO
         /\ UNCHANGED <<srv, cl, nwrites, naccepts>>
         /\ Queues(q0, q1)

ListenerClose(i) ==
    /\ lst[i].pc = "live"
    /\ ServerFileClose(i)

\* ---- plan9FileConn on the server side (file: sl.file) ----------------------
HasServerConn(i) == lst[i].hasconn

\* A Read that goes to the descriptor without looking at the File's state.
ReadOutcomeUnchecked(closed, q, farOpen) ==
    IF q # <<>> THEN "data"
    ELSE IF ~farOpen THEN "EOF"
    ELSE "blocks"

\* What a Read on a File finds: "ErrClosed" on a closed File, "data" when a
\* block is queued, "EOF" when nothing is queued and the far end is closed,
\* and otherwise the call blocks.
ReadOutcome(closed, q, farOpen) ==
    IF closed THEN "ErrClosed"
    ELSE IF q # <<>> THEN "data"
    ELSE IF ~farOpen THEN "EOF"
    ELSE "blocks"

\* A Write that goes to the descriptor without looking at the File's state.
WriteOutcomeUnchecked(closed, farOpen) == IF ~farOpen THEN "EPIPE" ELSE "nil"

\* What a Write on a File finds.
WriteOutcome(closed, farOpen) ==
    IF closed THEN "ErrClosed"
    ELSE IF ~farOpen THEN "EPIPE"
    ELSE "nil"

ServerConnRead(i) ==
    /\ HasServerConn(i)
    /\ \E n \in ReadBufLens :
       LET out == ReadOutcome(lst[i].closed, q0[i], End1Open(i))
       IN /\ out # "blocks"
          /\ IF out = "data"
             THEN /\ lst' = [lst EXCEPT ![i].sgot = @ \o PipeReadData(q0[i], n)]
                  /\ io' = NoIO
                  /\ UNCHANGED <<srv, cl, nwrites, naccepts>>
                  /\ Queues([q0 EXCEPT ![i] = PipeReadRest(q0[i], n)], q1)
             ELSE /\ io' = Ret("Read", "server", i, out)
                  /\ UNCHANGED <<srv, lst, cl, q0, q1, nwrites, naccepts>>

ServerConnWrite(i) ==
    /\ HasServerConn(i)
    /\ \E m \in ServerMsgs :
       LET out == WriteOutcome(lst[i].closed, End1Open(i))
       IN IF out = "nil"
          THEN /\ nwrites < MaxWrites
               /\ nwrites' = nwrites + 1
               /\ lst' = [lst EXCEPT ![i].ssent = @ \o m]
               /\ io' = NoIO
               /\ UNCHANGED <<srv, cl, naccepts>>
               /\ Queues(q0, [q1 EXCEPT ![i] = Append(@, m)])
          ELSE /\ io' = Ret("Write", "server", i, out)
               /\ UNCHANGED <<srv, lst, cl, q0, q1, nwrites, naccepts>>

\* A Conn with a File of its own: its Close would leave the listener's File
\* as it is.
ServerConnCloseOwnFile(i) ==
    /\ HasServerConn(i)
    /\ io' = Ret("Close", "server", i, "nil")
    /\ UNCHANGED <<srv, lst, cl, q0, q1, nwrites, naccepts>>

ServerConnClose(i) ==
    /\ HasServerConn(i)
    /\ ServerFileClose(i)

\* ---- plan9FileConn on the client side (file: f of connect) ----------------
ClientConnRead(c) ==
    /\ cl[c].pc = "conn"
    /\ \E n \in ReadBufLens :
       LET i == cl[c].pipe
           out == ReadOutcome(cl[c].closed, q1[i], End0Open(i))
       IN /\ out # "blocks"
          /\ IF out = "data"
             THEN /\ cl' = [cl EXCEPT ![c].got = @ \o PipeReadData(q1[i], n)]
                  /\ io' = NoIO
                  /\ UNCHANGED <<srv, lst, nwrites, naccepts>>
                  /\ Queues(q0, [q1 EXCEPT ![i] = PipeReadRest(q1[i], n)])
             ELSE /\ io' = Ret("Read", "client", c, out)
                  /\ UNCHANGED <<srv, lst, cl, q0, q1, nwrites, naccepts>>

ClientConnWrite(c) ==
    /\ cl[c].pc = "conn"
    /\ \E m \in ClientMsgs :
       LET i == cl[c].pipe
           out == WriteOutcome(cl[c].closed, End0Open(i))
       IN IF out = "nil"
          THEN /\ nwrites < MaxWrites
               /\ nwrites' = nwrites + 1
               /\ cl' = [cl EXCEPT ![c].sent = @ \o m]
               /\ io' = NoIO
               /\ UNCHANGED <<srv, lst, naccepts>>
               /\ Queues([q0 EXCEPT ![i] = Append(@, m)], q1)
          ELSE /\ io' = Ret("Write", "client", c, out)
               /\ UNCHANGED <<srv, lst, cl, q0, q1, nwrites, naccepts>>

ClientConnClose(c) ==
    /\ cl[c].pc = "conn"
    /\ IF cl[c].closed
       THEN /\ io' = Ret("Close", "client", c, FileCloseResult(TRUE))
            /\ UNCHANGED <<srv, lst, cl, q0, q1, nwrites, naccepts>>
       ELSE /\ cl' = [cl EXCEPT ![c].closed = TRUE, ![c].fd = FALSE]
            /\ io' = NoIO
            /\ UNCHANGED <<srv, lst, nwrites, naccepts>>
            /\ Queues(q0, q1)

\* ---- SetDeadline, SetReadDeadline, SetWriteDeadline -------------------------
DeadlineOps == {"SetDeadline", "SetReadDeadline", "SetWriteDeadline"}
\* A setter that reports success without arming anything.
DeadlineResultIgnored(op) == IF op = "SetReadDeadline" THEN "nil" ELSE "EPLAN9"

\* return syscall.EPLAN9
DeadlineResult(op) == "EPLAN9"

ServerConnSetDeadline(i) ==
    /\ HasServerConn(i)
    /\ \E op \in DeadlineOps : io' = Ret(op, "server", i, DeadlineResult(op))
    /\ UNCHANGED <<srv, lst, cl, q0, q1, nwrites, naccepts>>

ClientConnSetDeadline(c) ==
    /\ cl[c].pc = "conn"
    /\ \E op \in DeadlineOps : io' = Ret(op, "client", c, DeadlineResult(op))
    /\ UNCHANGED <<srv, lst, cl, q0, q1, nwrites, naccepts>>

\* ---- the system -----------------------------------------------------------
Next ==
    \/ \E i \in Listeners :
         \/ CreateSrvPipeFail(i)
         \/ CreateSrvCreate(i)
         \/ CreateSrvCreateFail(i)
         \/ CreateSrvPost(i)
         \/ CreateSrvPostFail(i)
         \/ CreateSrvReturn(i)
         \/ AcceptCall(i)
         \/ AcceptReadData(i)
         \/ AcceptReadEOF(i)
         \/ ListenerClose(i)
         \/ ServerConnRead(i)
         \/ ServerConnWrite(i)
         \/ ServerConnClose(i)
         \/ ServerConnSetDeadline(i)
    \/ \E c \in Clients :
         \/ ConnectOpen(c)
         \/ ConnectWrite(c)
         \/ ConnectFileFinalize(c)
         \/ ClientConnRead(c)
         \/ ClientConnWrite(c)
         \/ ClientConnClose(c)
         \/ ClientConnSetDeadline(c)

Spec == Init /\ [][Next]_vars

\* A Read that is in the kernel returns once the pipe has data for it or the
\* far end is closed.  Nothing else is required to happen: callers and
\* clients act when they choose.
LiveSpec ==
    /\ Spec
    /\ \A i \in Listeners : WF_vars(AcceptReadData(i)) /\ WF_vars(AcceptReadEOF(i))

\* ---- helpers of the properties ---------------------------------------------
RECURSIVE Flatten(_)
Flatten(q) == IF q = <<>> THEN <<>> ELSE Head(q) \o Flatten(Tail(q))

Program == <<srv, lst, cl, q0, q1, nwrites, naccepts>>

\* Client c and the Conn that Accept returned on listener i are the two sides
\* of one connection, and no other client ever opened listener i's pipe.
Openers(i) == {c \in Clients : cl[c].pipe = i}
Established(i, c) ==
    /\ cl[c].pc = "conn" /\ cl[c].pipe = i
    /\ lst[i].hasconn
    /\ Openers(i) = {c}

\* The token occurs somewhere in the byte sequence s.
HasToken(s) ==
    \E k \in 0..(Len(s) - Len(Hello)) : SubSeq(s, k + 1, k + Len(Hello)) = Hello

\* Reads of len("Hello") bytes on the queue q, one after the other, come to a
\* read that delivers exactly the token.
RECURSIVE ScanFinds(_)
ScanFinds(q) ==
    IF q = <<>> THEN FALSE
    ELSE LET b == Head(q)
             n == Len(Hello)
         IN IF b = Hello THEN TRUE
            ELSE IF Len(b) <= n THEN ScanFinds(Tail(q))
            ELSE ScanFinds(<<SubSeq(b, n + 1, Len(b))>> \o Tail(q))

\* ---- C1 ---------------------------------------------------------------------
\* C1: Accept returns a Conn only from a read that delivered exactly the five
\* bytes "Hello".  A read of Accept that delivers fewer bytes, or five other
\* bytes, produces no Conn: Accept goes on reading (or, if its File was closed
\* meanwhile, returns that error).
C1_AcceptOnlyOnHello ==
    [][\A i \in Listeners :
         /\ (lst'[i].ares = "conn" /\ lst[i].ares # "conn")
              => /\ lst[i].acc = "reading"
                 /\ q0[i] # <<>>
                 /\ PipeReadData(q0[i], HelloLen) = Hello
         /\ (lst'[i].hasconn /\ ~lst[i].hasconn) => lst'[i].ares = "conn"
         /\ (AcceptReadData(i) /\ PipeReadData(q0[i], HelloLen) # Hello)
              => /\ lst'[i].ares # "conn"
                 /\ lst'[i].hasconn = lst[i].hasconn
                 /\ lst'[i].acc = "reading" \/ lst[i].closed
                 /\ lst'[i].sgot = lst[i].sgot
                 /\ Len(Flatten(q0'[i])) < Len(Flatten(q0[i]))
      ]_vars

\* A client's request was consumed by a later Accept on the listener that had
\* already returned a Conn: read, not matched, and Accept still reading.
C1_Witness ==
    \E i \in Listeners, c \in Clients :
        /\ cl[c].pipe = i /\ cl[c].sent # <<>>
        /\ lst[i].hasconn /\ lst[i].acc = "reading" /\ lst[i].ares = "none"
        /\ q0[i] = <<>> /\ lst[i].sgot = <<>>

\* ---- C2 ---------------------------------------------------------------------
\* C2: on an established connection with both sides open, what one side has
\* read followed by what is still queued for it is exactly what the other
\* side has written, in order, in both directions.
C2_RoundTripFidelity ==
    \A i \in Listeners, c \in Clients :
        (Established(i, c) /\ ~lst[i].closed /\ ~cl[c].closed)
          => /\ lst[i].sgot \o Flatten(q0[i]) = cl[c].sent
             /\ cl[c].got \o Flatten(q1[i]) = lst[i].ssent

\* ---- C3 ---------------------------------------------------------------------
\* C3: at most one listener that listen() returned and that has not been
\* closed exists for the path at any time.
C3_AtMostOneLiveListener ==
    Cardinality({i \in Listeners : lst[i].pc = "live" /\ ~lst[i].closed}) <= 1

\* ---- C4 ---------------------------------------------------------------------
\* C4: from the return of listen() until the listener's file is closed, the
\* /srv name is registered and holds that listener's pipe.
C4_NameRegisteredWhileOpen ==
    \A i \in Listeners :
        (lst[i].pc = "live" /\ ~lst[i].closed)
          => (srv.st = "posted" /\ srv.owner = i)

\* ---- C5 ---------------------------------------------------------------------
\* C5: an Accept that is in its read when the listener is closed eventually
\* returns.
C5_CloseUnblocksAccept ==
    \A i \in Listeners :
        (lst[i].closed /\ lst[i].acc = "reading") ~> (lst[i].acc = "none")

\* ---- C6 ---------------------------------------------------------------------
\* C6: SetDeadline, SetReadDeadline and SetWriteDeadline return EPLAN9 on every
\* Conn, open or closed, and change nothing: the files, the pipe and hence what
\* the next Read finds are as before the call.
C6_DeadlinesUnsupported ==
    [][/\ (io'.op \in DeadlineOps) => (io'.r = "EPLAN9" /\ UNCHANGED Program)
       /\ \A i \in Listeners : ServerConnSetDeadline(i)
            => /\ io'.r = "EPLAN9"
               /\ ReadOutcome(lst'[i].closed, q0'[i], End1Open(i)')
                    = ReadOutcome(lst[i].closed, q0[i], End1Open(i))
       /\ \A c \in Clients : ClientConnSetDeadline(c)
            => /\ io'.r = "EPLAN9"
               /\ ReadOutcome(cl'[c].closed, q1'[cl[c].pipe], End0Open(cl[c].pipe)')
                    = ReadOutcome(cl[c].closed, q1[cl[c].pipe], End0Open(cl[c].pipe))
      ]_vars

\* A deadline setter has run on a Conn whose Read would block.
C6_Witness ==
    /\ io.op = "SetReadDeadline" /\ io.side = "client"
    /\ ReadOutcome(cl[io.id].closed, q1[cl[io.id].pipe], End0Open(cl[io.id].pipe))
         = "blocks"

\* ---- C7 ---------------------------------------------------------------------
\* C7: a connect whose single write reported some but not all of the five
\* bytes has returned BadHandshake.
C7_ShortWriteIsBadHandshake ==
    \A c \in Clients :
        (cl[c].hw = 1 /\ cl[c].wn > 0 /\ cl[c].wn < HelloLen)
          => cl[c].res = "BadHandshake"

\* ---- C8 ---------------------------------------------------------------------
\* C8: once the listener's File is closed, every Read and Write on a Conn that
\* Accept returned fails with ErrClosed and moves no byte, and the /srv name is
\* not held by that listener.
C8_ClosedConnUnusable ==
    [][\A i \in Listeners : lst[i].closed =>
         /\ ~(srv.st # "absent" /\ srv.owner = i)
         /\ ServerConnRead(i) => (io'.r = "ErrClosed" /\ UNCHANGED Program)
         /\ ServerConnWrite(i) => (io'.r = "ErrClosed" /\ UNCHANGED Program)
         /\ lst'[i].sgot = lst[i].sgot
         /\ lst'[i].ssent = lst[i].ssent
      ]_vars

\* A Write on a closed listener's Conn has failed with ErrClosed.
C8_Witness ==
    /\ io.op = "Write" /\ io.side = "server" /\ io.r = "ErrClosed"
    /\ lst[io.id].closed /\ lst[io.id].hasconn

\* ---- C9 ---------------------------------------------------------------------
\* C9: on an established connection, once one side has closed its Conn and
\* the bytes in flight are drained, a Read on the other side's Conn finds
\* end of stream.
C9_PeerReadSeesClose ==
    \A i \in Listeners, c \in Clients :
        Established(i, c) =>
          /\ (cl[c].closed /\ ~lst[i].closed /\ q0[i] = <<>>)
                => ReadOutcome(lst[i].closed, q0[i], End1Open(i)) = "EOF"
          /\ (lst[i].closed /\ ~cl[c].closed /\ q1[i] = <<>>)
                => ReadOutcome(cl[c].closed, q1[i], End0Open(i)) = "EOF"

\* ---- C10 --------------------------------------------------------------------
\* C10 as stated: whenever an Accept is in its read on an open listener and
\* the bytes queued for it contain the token, however they are cut into
\* reads, that Accept eventually returns (unless the listener is closed or a
\* Read on a Conn takes bytes from the pipe first).
C10_AnyChunkingAccepted ==
    \A i \in Listeners :
        (/\ lst[i].acc = "reading" /\ ~lst[i].closed /\ lst[i].sgot = <<>>
         /\ HasToken(Flatten(q0[i])))
          ~> (lst[i].ares # "none" \/ lst[i].closed \/ lst[i].sgot # <<>>)

\* C10 amended: whenever an Accept is in its read on an open listener and the
\* reads of five bytes on what is queued come to one that delivers exactly
\* the token, that Accept eventually returns a Conn (unless the listener is
\* closed or a Read on a Conn takes bytes from the pipe first).  Noise in reads
\* of its own before the token is discarded on the way.
C10_WholeTokenReadAccepted ==
    \A i \in Listeners :
        (/\ lst[i].acc = "reading" /\ ~lst[i].closed /\ lst[i].sgot = <<>>
         /\ ScanFinds(q0[i]))
          ~> (lst[i].ares = "conn" \/ lst[i].closed \/ lst[i].sgot # <<>>)

\* The only Accept on a listener has returned a Conn after it read and
\* discarded the two bytes a failed connect had left in the pipe.
C10_Witness ==
    \E i \in Listeners, c \in Clients :
        /\ cl[c].pipe = i /\ cl[c].wn > 0 /\ cl[c].wn < HelloLen
        /\ lst[i].ares = "conn" /\ naccepts = 1
        /\ q0[i] = <<>> /\ lst[i].sgot = <<>>

\* ---- C11 --------------------------------------------------------------------
\* The errors a Read of Accept can return.
AcceptErrors == {"EOF", "ErrClosed"}

\* C11: Accept reads again only after a read that delivered bytes other than
\* the token; a read that fails, end of stream included, makes Accept return
\* that error: no Conn is handed out, and Accept takes nothing more from the
\* pipe once it has returned.
C11_AcceptRetriesOnlyOnMismatch ==
    [][\A i \in Listeners :
         /\ AcceptReadEOF(i)
              => (lst'[i].ares = "EOF" /\ lst'[i].acc = "none")
         /\ ((AcceptCall(i) \/ AcceptReadData(i) \/ AcceptReadEOF(i))
               /\ lst'[i].ares \in AcceptErrors)
              => (lst'[i].acc = "none" /\ lst'[i].hasconn = lst[i].hasconn)
         /\ ((AcceptReadData(i) \/ AcceptReadEOF(i)) /\ lst'[i].acc = "reading")
              => /\ q0[i] # <<>>
                 /\ PipeReadData(q0[i], HelloLen) # Hello
                 /\ ~lst[i].closed
         /\ (lst[i].acc = "none" /\ lst'[i].acc = "none"
               /\ Len(Flatten(q0'[i])) < Len(Flatten(q0[i])))
              => (lst'[i].sgot # lst[i].sgot \/ ~lst'[i].fd0)
      ]_vars

\* An Accept has read and discarded bytes that were not the token, then its
\* next read found the client end closed and it returned end of stream.
C11_Witness ==
    \E i \in Listeners, c \in Clients :
        /\ cl[c].pipe = i /\ cl[c].sent # <<>> /\ cl[c].closed
        /\ lst[i].ares = "EOF" /\ lst[i].acc = "none" /\ ~lst[i].closed
        /\ lst[i].sgot = <<>> /\ q0[i] = <<>>

\* ---- C12 --------------------------------------------------------------------
\* C12: a connect that finds no name registered fails with NotFound: it
\* returns no Conn, holds no descriptor, has issued no write, and the pipes
\* are as they were.  NotFound is returned in no other case.
C12_ConnectWithoutNameNotFound ==
    [][\A c \in Clients :
         /\ (ConnectOpen(c) /\ srv.st = "absent")
              => /\ cl'[c].pc = "failed" /\ cl'[c].res = "NotFound"
                 /\ ~cl'[c].fd /\ cl'[c].hw = 0
                 /\ q0' = q0 /\ q1' = q1
         /\ (ConnectOpen(c) /\ cl'[c].res = "NotFound") => srv.st = "absent"
         /\ cl[c].res = "NotFound"
              => /\ cl'[c] = cl[c]
                 /\ cl[c].pc = "failed" /\ ~cl[c].fd /\ cl[c].hw = 0
                 /\ cl[c].sent = <<>>
      ]_vars

\* A connect has failed with NotFound although a listener of the path is
\* live and open: the name was removed when its listen returned.
C12_Witness ==
    \E c \in Clients, i \in Listeners :
        /\ cl[c].res = "NotFound"
        /\ lst[i].pc = "live" /\ ~lst[i].closed

\* ---- C13 --------------------------------------------------------------------
\* C13: a Conn exists only after its handshake step (the client's write of
\* the five bytes reported in full without error, the server's read of
\* exactly the token); a Conn whose File is closed stays closed, its Read and
\* Write fail with ErrClosed and move no byte; and a Conn stays on the pipe it
\* was made on.
C13_ConnLifecycle ==
    [][/\ \A c \in Clients :
            /\ cl'[c].pc = "conn"
                 => (cl'[c].hw = 1 /\ cl'[c].wn = HelloLen /\ cl'[c].res = "ok")
            /\ (cl'[c].pc = "conn" /\ cl[c].pc # "conn")
                 => (cl[c].pc = "opened" /\ ~cl'[c].closed /\ cl'[c].fd)
            /\ cl[c].pc = "conn"
                 => (cl'[c].pc = "conn" /\ cl'[c].pipe = cl[c].pipe)
            /\ cl[c].closed
                 => /\ cl'[c].closed /\ ~cl'[c].fd
                    /\ cl'[c].sent = cl[c].sent /\ cl'[c].got = cl[c].got
                    /\ (ClientConnRead(c) \/ ClientConnWrite(c))
                         => io'.r = "ErrClosed"
       /\ \A i \in Listeners :
            /\ (lst'[i].hasconn /\ ~lst[i].hasconn)
                 => (AcceptReadData(i) /\ PipeReadData(q0[i], HelloLen) = Hello)
            /\ lst[i].hasconn => lst'[i].hasconn
            /\ lst[i].closed
                 => /\ lst'[i].closed
                    /\ lst'[i].ssent = lst[i].ssent /\ lst'[i].sgot = lst[i].sgot
                    /\ (ServerConnRead(i) \/ ServerConnWrite(i))
                         => io'.r = "ErrClosed"
      ]_vars

\* A Read on a client's closed Conn has failed with ErrClosed while the
\* server had written bytes for it.
C13_Witness ==
    /\ io.op = "Read" /\ io.side = "client" /\ io.r = "ErrClosed"
    /\ cl[io.id].closed /\ lst[cl[io.id].pipe].ssent # <<>>

\* ---- C14 --------------------------------------------------------------------
\* The sequence s is the beginning of the sequence t.
IsPrefix(s, t) == Len(s) <= Len(t) /\ SubSeq(t, 1, Len(s)) = s

\* C14: what Read on the Conn of a listener has returned are bytes one single
\* client wrote on its Conn: the beginning of what that client has sent.
C14_ConnBytesFromOnePeer ==
    \A i \in Listeners :
        lst[i].hasconn
          => \E c \in Clients :
                cl[c].pipe = i /\ IsPrefix(lst[i].sgot, cl[c].sent)

\* ---- C15 --------------------------------------------------------------------
\* C15: the Conn that Accept returns is the listener's own File.  Accept makes
\* no pipe and opens nothing; a Close through the Conn or through the
\* listener closes that one File, so that afterwards a Read or Write on the
\* Conn and a new Accept on the listener all fail with ErrClosed; and while
\* the File is open none of them fails with ErrClosed.
C15_ConnSharesListenerFile ==
    [][\A i \in Listeners :
         /\ (AcceptCall(i) \/ AcceptReadData(i) \/ AcceptReadEOF(i))
              => /\ srv' = srv /\ cl' = cl /\ q1' = q1
                 /\ lst'[i].fd1 = lst[i].fd1
                 /\ lst'[i].fd0 => lst[i].fd0
                 /\ \A j \in Listeners \ {i} : lst'[j] = lst[j]
         /\ ((ServerConnClose(i) \/ ListenerClose(i)) /\ ~lst[i].closed)
              => lst'[i].closed
         /\ ((ServerConnClose(i) \/ ListenerClose(i)) /\ lst[i].closed)
              => io'.r = "ErrClosed"
         /\ (ServerConnRead(i) \/ ServerConnWrite(i))
              => (lst[i].closed <=> io'.r = "ErrClosed")
         /\ AcceptCall(i)
              => (lst[i].closed <=> lst'[i].ares = "ErrClosed")
      ]_vars

\* After a Close on the shared File a new Accept on the listener that had
\* returned a Conn has failed with ErrClosed.
C15_Witness ==
    \E i \in Listeners :
        /\ lst[i].hasconn /\ lst[i].closed
        /\ lst[i].ares = "ErrClosed" /\ lst[i].acc = "none" /\ naccepts = 2

\* ---- C16 --------------------------------------------------------------------
\* C16 as stated: a Close on a listener that is already closed returns what
\* the first Close returned and changes nothing.
C16_SecondCloseSameResult ==
    [][\A i \in Listeners :
         (ListenerClose(i) /\ lst[i].closed)
           => (io'.r = FileCloseResult(FALSE) /\ UNCHANGED Program)
      ]_vars

\* C16 amended: the first Close on a listener closes its File and leaves the
\* name unheld; a Close on a listener that is already closed changes nothing
\* (the File stays closed, the name stays released) and returns ErrClosed.
C16_SecondCloseNoEffect ==
    [][\A i \in Listeners :
         /\ (ListenerClose(i) /\ ~lst[i].closed)
              => /\ lst'[i].closed
                 /\ ~(srv'.st # "absent" /\ srv'.owner = i)
         /\ (ListenerClose(i) /\ lst[i].closed)
              => /\ io'.r = "ErrClosed"
                 /\ UNCHANGED Program
      ]_vars

\* A second Close on a listener that has handed out no Conn has returned.
C16_Witness ==
    /\ io.op = "Close" /\ io.side = "server"
    /\ lst[io.id].closed /\ ~lst[io.id].hasconn

\* ---- C17 --------------------------------------------------------------------
\* C17: a listen() that has returned an error holds no descriptor (neither
\* pipe end, nor the one of the /srv entry) and has left no name in /srv.
C17_FailedListenHoldsNothing ==
    \A i \in Listeners :
        lst[i].pc = "failed"
          => /\ ~lst[i].fd0 /\ ~lst[i].fd1 /\ ~lst[i].srvfd
             /\ ~(srv.st # "absent" /\ srv.owner = i)

\* ---- C18 --------------------------------------------------------------------
\* C18: once a connection is established (and its client is the only opener
\* of the pipe, so that all that is queued was written on the client's Conn),
\* a read of a later Accept on the same listener takes no byte from the pipe.
C18_AcceptLeavesConnData ==
    [][\A i \in Listeners, c \in Clients :
         (Established(i, c) /\ AcceptReadData(i))
           => Flatten(q0'[i]) = Flatten(q0[i])
      ]_vars

\* ---- C19 --------------------------------------------------------------------
\* C19: a connect that has returned an error holds no open descriptor.
C19_FailedConnectHoldsNothing ==
    \A c \in Clients : cl[c].pc = "failed" => ~cl[c].fd

====
